---- MODULE Spec2Model ----
(***************************************************************************)
(* UniversalEvents (src/src/UniversalEvents.js): a named-event hub with    *)
(* listener registration and removal, synchronous dispatch over a copy of  *)
(* the handler array, and the one-shot wrappers once / await / cbOnce.     *)
(*                                                                         *)
(* JavaScript runs one call at a time, so the model is a call stack: each  *)
(* raiseEvent in flight is a frame, and user code (a handler body, or the  *)
(* top-level script when the stack is empty) may call any method of the    *)
(* hub while it runs.                                                      *)
(***************************************************************************)
EXTENDS Integers, Sequences, FiniteSets, TLC

\* ------------------------------------------------------------------ bounds
\* Total number of method calls made on the hub in one behaviour.
MaxOps == 4
\* Number of method calls made in one behaviour of the name-validation
\* specification, whose calls draw their names from a larger set.
MaxNameOps == 2

\* ------------------------------------------------------------ input values
\* A JavaScript value used as an event name: its typeof and its content.
Str(x) == [t |-> "string", v |-> x]

\* The event names the scripts use.
Names == {Str("s"), Str("f")}
\* The user's function references handed to addEventListener and
\* removeEventListener, by identity.
Fns == {1, 2}
\* The function handed to once (as the handler) and to cbOnce (as the callback).
Callbacks == {1}
\* The (success, failure) names handed to await and cbOnce.
Pairs == {<<Str("s"), Str("f")>>}
\* The data values passed to raiseEvent.
Data == {"d1", "d2"}

\* Other JavaScript values a caller may pass where a name is expected.
Undefined == [t |-> "undefined", v |-> ""]
Num(x) == [t |-> "number", v |-> x]

\* Constructor arguments (22-32): a JavaScript value and, for an iterable,
\* the elements new Set(...) takes from it.
CtorUndefined == [t |-> "undefined", v |-> "", items |-> {}]
CtorNull == [t |-> "null", v |-> "", items |-> {}]
CtorArray(S) == [t |-> "array", v |-> "", items |-> S]
CtorSet(S) == [t |-> "set", v |-> "", items |-> S]
CtorString(x) == [t |-> "string", v |-> x, items |-> {}]
\* The scripts of the dispatch specifications construct the hub with no
\* argument.
CtorArgs == {CtorUndefined}

VARIABLES
    ctor,             \* the constructor call: its argument and the Error it threw
    validEvents,      \* this._validEvents: null, or the Set of allowed names
    eventListeners,   \* this._eventListeners: event name -> array of handlers
    stack,            \* the raiseEvent calls in flight, innermost last
    promises,         \* await call -> the state of the Promise it returned
    calls,            \* once / await / cbOnce call -> its arguments and the
                      \* calls its closures have made (handler, resolve, callback)
    ret,              \* the method call that finished last, as its caller saw it
    nOps              \* method calls made so far

vars == <<ctor, validEvents, eventListeners, stack, promises, calls, ret, nOps>>

\* --------------------------------------------------------- the constructor
\* constructor(validEvents): a falsy argument means "no restriction" (null),
\* anything else that is not a string is materialised into a Set.
Falsy(x) ==
    \/ x.t \in {"undefined", "null"}
    \/ x.t = "string" /\ x.v = ""
    \/ x.t = "number" /\ x.v = "0"

\* The Error the constructor throws (25-26), "" when it returns normally.
ConstructorError(arg) ==
    IF ~Falsy(arg) /\ arg.t = "string"
    THEN "Use of a string is probably a typo, should be Set or Array, or other iterable"
    ELSE ""

\* this._validEvents after the constructor (23-29); when the constructor
\* throws there is no object, and the value is never read.
Constructor(arg) ==
    IF Falsy(arg) THEN [null |-> TRUE, has |-> {}]
    ELSE IF arg.t = "string" THEN [null |-> TRUE, has |-> {}]
    ELSE [null |-> FALSE, has |-> arg.items]

\* A check that never looks at the list of valid names.
CheckEventNameNoList(valid, eventName) ==
    IF Falsy(eventName) THEN "Event name unspecified"
    ELSE IF eventName.t # "string" THEN "Event name must be string"
    ELSE "ok"

\* A check without the typeof test.
CheckEventNameNoType(valid, eventName) ==
    IF Falsy(eventName) THEN "Event name unspecified"
    ELSE IF ~valid.null /\ eventName \notin valid.has THEN "Unknown event name"
    ELSE "ok"

\* _checkEventName(eventName): "ok", or the message of the Error thrown.
CheckEventName(valid, eventName) ==
    IF Falsy(eventName) THEN "Event name unspecified"
    ELSE IF eventName.t # "string" THEN "Event name must be string"
    ELSE IF ~valid.null /\ eventName \notin valid.has THEN "Unknown event name"
    ELSE "ok"

\* A check that remembers the names it is given: add where the code has has.
ValidEventsAfterCheckAdds(valid, eventName) ==
    IF valid.null \/ Falsy(eventName) \/ eventName.t # "string"
    THEN valid
    ELSE [valid EXCEPT !.has = @ \cup {eventName}]

\* this._validEvents after _checkEventName(eventName): the method only
\* reads it (41: this._validEvents.has(eventName)), and no other method
\* assigns it.
ValidEventsAfterCheck(valid, eventName) == valid

\* ---------------------------------------------------------------- handlers
\* A function reference held in a listener array.  Two references are the
\* same handler exactly when the records are equal: a user function is the
\* same wherever it is registered, a closure made by once / await / cbOnce is
\* new on every call (id is the number of the call that made it).
Fn(h) == [kind |-> "fn", id |-> 0, s |-> "", f |-> "", cb |-> h]
InnerHandler(k, e, h) == [kind |-> "once", id |-> k, s |-> e, f |-> "", cb |-> h]
AwaitSuccessHandler(k, s, f) == [kind |-> "awaitS", id |-> k, s |-> s, f |-> f, cb |-> 0]
AwaitFailureHandler(k, s, f) == [kind |-> "awaitF", id |-> k, s |-> s, f |-> f, cb |-> 0]
CbSuccessHandler(k, s, f, cb) == [kind |-> "cbS", id |-> k, s |-> s, f |-> f, cb |-> cb]
CbFailureHandler(k, s, f, cb) == [kind |-> "cbF", id |-> k, s |-> s, f |-> f, cb |-> cb]

\* The successHandler / failureHandler of the same await or cbOnce call.
SuccessOf(h) ==
    [h EXCEPT !.kind = IF h.kind \in {"awaitS", "awaitF"} THEN "awaitS" ELSE "cbS"]
FailureOf(h) ==
    [h EXCEPT !.kind = IF h.kind \in {"awaitS", "awaitF"} THEN "awaitF" ELSE "cbF"]

\* ------------------------------------------------------ the listener arrays
\* this._eventListeners[eventName] || []
GetListenersForEvent(L, e) == IF e \in DOMAIN L THEN L[e] ELSE <<>>

\* lastIndexOf in place of indexOf: the index of the last occurrence, or -1.
IndexOfLast(arr, h) ==
    IF \E j \in 1..Len(arr) : arr[j] = h
    THEN (CHOOSE j \in 1..Len(arr) :
              arr[j] = h /\ \A m \in (j + 1)..Len(arr) : arr[m] # h) - 1
    ELSE -1

\* Array.prototype.indexOf: the 0-based index of the first occurrence, or -1.
IndexOf(arr, h) ==
    IF \E j \in 1..Len(arr) : arr[j] = h
    THEN (CHOOSE j \in 1..Len(arr) :
              arr[j] = h /\ \A m \in 1..(j - 1) : arr[m] # h) - 1
    ELSE -1

\* splice(start) without a deleteCount: everything from start on is removed.
SpliceToEnd(arr, start, deleteCount) ==
    LET len == Len(arr)
        from == IF start < 0
                THEN (IF len + start > 0 THEN len + start ELSE 0)
                ELSE (IF start < len THEN start ELSE len)
    IN  SubSeq(arr, 1, from)

\* Array.prototype.splice(start, deleteCount): a negative start counts from
\* the end of the array.
Splice(arr, start, deleteCount) ==
    LET len == Len(arr)
        from == IF start < 0
                THEN (IF len + start > 0 THEN len + start ELSE 0)
                ELSE (IF start < len THEN start ELSE len)
        cnt == IF deleteCount < len - from THEN deleteCount ELSE len - from
    IN  SubSeq(arr, 1, from) \o SubSeq(arr, from + cnt + 1, len)

\* A registration that skips a handler the array already holds.
AddToDeduplicated(L, e, handler) ==
    [n \in DOMAIN L \cup {e} |->
        IF n = e
        THEN (IF \E j \in 1..Len(GetListenersForEvent(L, e)) :
                     GetListenersForEvent(L, e)[j] = handler
              THEN GetListenersForEvent(L, e)
              ELSE Append(GetListenersForEvent(L, e), handler))
        ELSE L[n]]

\* The registry after addEventListener(e, handler) (60-64).
AddTo(L, e, handler) ==
    [n \in DOMAIN L \cup {e} |->
        IF n = e THEN Append(GetListenersForEvent(L, e), handler) ELSE L[n]]

\* The registry after removeEventListener(e, handler) (111-116).
RemoveFrom(L, e, handler) ==
    IF e \in DOMAIN L
    THEN [L EXCEPT ![e] = Splice(L[e], IndexOf(L[e], handler), 1)]
    ELSE L

\* ---------------------------------------------------------------- promises
Pending == [state |-> "pending", value |-> ""]

\* A promise that can be settled again.
SettleAgain(P, k, how, val) == [P EXCEPT ![k] = [state |-> how, value |-> val]]

\* resolve(val) / reject(err) of a Promise: no effect once it is settled.
Settle(P, k, how, val) ==
    IF P[k].state = "pending"
    THEN [P EXCEPT ![k] = [state |-> how, value |-> val]]
    ELSE P

\* ------------------------------------------------------------------- state
\* No method call has finished since the running code last took control.
NoRet ==
    [op |-> "none", ev |-> "", ev2 |-> "", fn |-> 0, data |-> "", result |-> "",
     error |-> "", names |-> <<>>,
     startReg |-> <<>>, invoked |-> <<>>, afterReg |-> <<>>]

\* A method call that finished at once: its arguments, its result and the
\* registry before and after it.
Returned(op, ev, ev2, fn, result, before, after) ==
    [op |-> op, ev |-> ev, ev2 |-> ev2, fn |-> fn, data |-> "", result |-> result,
     error |-> "", names |-> IF ev2 = "" THEN <<Str(ev)>> ELSE <<Str(ev), Str(ev2)>>,
     startReg |-> before, invoked |-> <<>>, afterReg |-> after]

\* A method call that threw before any effect: the names it was given and
\* the message of the Error.
Thrown(op, names, fn, error, L) ==
    [op |-> op, ev |-> "", ev2 |-> "", fn |-> fn, data |-> "", result |-> "throw",
     error |-> error, names |-> names,
     startReg |-> L, invoked |-> <<>>, afterReg |-> L]

Extend(F, k, v) == [x \in DOMAIN F \cup {k} |-> IF x = k THEN v ELSE F[x]]

\* The state after new UniversalEvents(arg).
Constructed(arg) ==
    /\ ctor = [arg |-> arg, error |-> ConstructorError(arg)]
    /\ validEvents = Constructor(arg)
    /\ eventListeners = <<>>
    /\ stack = <<>>
    /\ promises = <<>>
    /\ calls = <<>>
    /\ ret = NoRet
    /\ nOps = 0

Init == \E a \in CtorArgs : Constructed(a)

Top == stack[Len(stack)]

\* User code is running and may call the hub: the top-level script (no
\* raiseEvent in flight) or the body of the handler being dispatched.
CanCall ==
    /\ ctor.error = ""
    /\ nOps < MaxOps
    /\ (IF stack = <<>> THEN TRUE ELSE Top.busy)

Valid(name) == CheckEventName(validEvents, name) = "ok"

\* The two name checks without the test that the names differ.
CheckEventNamesNoIdentical(valid, successEventName, failureEventName) ==
    IF CheckEventName(valid, successEventName) # "ok"
    THEN CheckEventName(valid, successEventName)
    ELSE CheckEventName(valid, failureEventName)

\* The checks await and cbOnce make before anything else (173-177, 211-215):
\* the success name, the failure name, then that the two differ.
CheckEventNames(valid, successEventName, failureEventName) ==
    IF CheckEventName(valid, successEventName) # "ok"
    THEN CheckEventName(valid, successEventName)
    ELSE IF CheckEventName(valid, failureEventName) # "ok"
    THEN CheckEventName(valid, failureEventName)
    ELSE IF successEventName = failureEventName
    THEN "Identical event name for success and failure"
    ELSE "ok"

\* A method that ends without a return statement.
AddEventListenerResultUndefined == "undefined"

\* return this (66): addEventListener hands back the hub it was called on.
AddEventListenerResult == "this"

\* ------------------------------------------------------------- the methods
\* addEventListener(eventName, handler), called by user code (57-67).
\* A method that throws at its _checkEventName call returns nothing and
\* leaves the registry alone; the Error reaches the code that made the call.
addEventListener(eventName, handler) ==
    /\ CanCall
    /\ LET check == CheckEventName(validEvents, eventName)
           after == AddTo(eventListeners, eventName.v, Fn(handler))
       IN
        IF check = "ok"
        THEN /\ eventListeners' = after
             /\ ret' = Returned("addEventListener", eventName.v, "", handler,
                                AddEventListenerResult, eventListeners, after)
        ELSE /\ eventListeners' = eventListeners
             /\ ret' = Thrown("addEventListener", <<eventName>>, handler, check,
                              eventListeners)
    /\ nOps' = nOps + 1
    /\ validEvents' = ValidEventsAfterCheck(validEvents, eventName)
    /\ UNCHANGED <<ctor, stack, promises, calls>>

\* removeEventListener(eventName, handler), called by user code (108-119).
\* User code holds only its own function references: the closures made by
\* once / await / cbOnce never leave the hub.
removeEventListener(eventName, handler) ==
    /\ CanCall
    /\ LET check == CheckEventName(validEvents, eventName)
           after == RemoveFrom(eventListeners, eventName.v, Fn(handler))
       IN
        IF check = "ok"
        THEN /\ eventListeners' = after
             /\ ret' = Returned("removeEventListener", eventName.v, "", handler,
                                "this", eventListeners, after)
        ELSE /\ eventListeners' = eventListeners
             /\ ret' = Thrown("removeEventListener", <<eventName>>, handler, check,
                              eventListeners)
    /\ nOps' = nOps + 1
    /\ validEvents' = ValidEventsAfterCheck(validEvents, eventName)
    /\ UNCHANGED <<ctor, stack, promises, calls>>

\* once(eventName, handler) (87-99): registers a fresh innerHandler and
\* returns what addEventListener returns.
once(eventName, handler) ==
    /\ CanCall
    /\ LET k == nOps + 1
           check == CheckEventName(validEvents, eventName)
           after == AddTo(eventListeners, eventName.v,
                          InnerHandler(k, eventName.v, handler))
       IN
        /\ IF check = "ok"
           THEN /\ eventListeners' = after
                /\ calls' = Extend(calls, k,
                       [op |-> "once", s |-> eventName.v, f |-> "", cb |-> handler,
                        log |-> <<>>])
                /\ ret' = Returned("once", eventName.v, "", handler,
                                   AddEventListenerResult, eventListeners, after)
           ELSE /\ eventListeners' = eventListeners
                /\ calls' = calls
                /\ ret' = Thrown("once", <<eventName>>, handler, check, eventListeners)
        /\ nOps' = k
    /\ validEvents' = ValidEventsAfterCheck(validEvents, eventName)
    /\ UNCHANGED <<ctor, stack, promises>>

\* A call that registers its success handler as soon as the success name
\* has passed its check, before it looks at the failure name.
RegistryAtThrowSuccessFirst(L, valid, successEventName, successHandler) ==
    IF CheckEventName(valid, successEventName) = "ok"
    THEN AddTo(L, successEventName.v, successHandler)
    ELSE L

\* The registry when await / cbOnce throw: the three checks (173-177,
\* 211-215) come before the registrations (194-195, 231-232), so nothing
\* has been added yet.
RegistryAtThrow(L, valid, successEventName, successHandler) == L

\* await(successEventName, failureEventName) (170-198): the executor of the
\* new Promise runs at once and registers both handlers.
await(successEventName, failureEventName) ==
    /\ CanCall
    /\ LET k == nOps + 1
           check == CheckEventNames(validEvents, successEventName, failureEventName)
           s == successEventName.v
           f == failureEventName.v
           after == AddTo(AddTo(eventListeners, s, AwaitSuccessHandler(k, s, f)),
                          f, AwaitFailureHandler(k, s, f))
       IN
        /\ IF check = "ok"
           THEN /\ eventListeners' = after
                /\ promises' = Extend(promises, k, Pending)
                /\ calls' = Extend(calls, k,
                       [op |-> "await", s |-> s, f |-> f, cb |-> 0, log |-> <<>>])
                /\ ret' = Returned("await", s, f, 0, "promise", eventListeners, after)
           ELSE /\ eventListeners' = RegistryAtThrow(eventListeners, validEvents,
                                       successEventName, AwaitSuccessHandler(k, s, f))
                /\ promises' = promises
                /\ calls' = calls
                /\ ret' = Thrown("await", <<successEventName, failureEventName>>, 0,
                                 check, eventListeners)
        /\ nOps' = k
    /\ validEvents' = ValidEventsAfterCheck(
            ValidEventsAfterCheck(validEvents, successEventName), failureEventName)
    /\ UNCHANGED <<ctor, stack>>

\* cbOnce(successEventName, failureEventName, callback) (208-235).
cbOnce(successEventName, failureEventName, callback) ==
    /\ CanCall
    /\ LET k == nOps + 1
           check == CheckEventNames(validEvents, successEventName, failureEventName)
           s == successEventName.v
           f == failureEventName.v
           after == AddTo(AddTo(eventListeners, s, CbSuccessHandler(k, s, f, callback)),
                          f, CbFailureHandler(k, s, f, callback))
       IN
        /\ IF check = "ok"
           THEN /\ eventListeners' = after
                /\ calls' = Extend(calls, k,
                       [op |-> "cbOnce", s |-> s, f |-> f, cb |-> callback,
                        log |-> <<>>])
                /\ ret' = Returned("cbOnce", s, f, callback, "this",
                                   eventListeners, after)
           ELSE /\ eventListeners' = RegistryAtThrow(eventListeners, validEvents,
                                       successEventName,
                                       CbSuccessHandler(k, s, f, callback))
                /\ calls' = calls
                /\ ret' = Thrown("cbOnce", <<successEventName, failureEventName>>,
                                 callback, check, eventListeners)
        /\ nOps' = k
    /\ validEvents' = ValidEventsAfterCheck(
            ValidEventsAfterCheck(validEvents, successEventName), failureEventName)
    /\ UNCHANGED <<ctor, stack, promises>>

\* ---------------------------------------------------------------- dispatch
\* A loop that walks the live array instead of the copy.
LoopHandlersLive(fr, L) == GetListenersForEvent(L, fr.ev)

\* handlers = handlers.slice() (140): the array the loop of one raiseEvent
\* walks is the copy made when the call started.
LoopHandlers(fr, L) == fr.handlers

\* A dispatch that hands the event name to the handler instead of the data.
ApplyArgEventName(fr) == fr.ev

\* The argument handlers[i].apply(this, [data]) passes (144).
ApplyArg(fr) == fr.data

\* A test that only asks whether the event has an array.
HasHandlersIfArray(L, e) == e \in DOMAIN L

\* handlers && handlers.length > 0 (135).
HasHandlers(L, e) == e \in DOMAIN L /\ Len(L[e]) > 0

\* A lookup that also picks up the handlers of another event.
HandlersOfOtherEvents(L, eventName) ==
    IF \E n \in DOMAIN L \ {eventName} : L[n] # <<>>
    THEN L[eventName] \o L[CHOOSE n \in DOMAIN L \ {eventName} : L[n] # <<>>]
    ELSE L[eventName]

\* A nested raiseEvent that reuses the copy the enclosing raiseEvent of the
\* same event is walking.
HandlersOfEnclosingCopy(L, eventName) ==
    IF stack # <<>>
    THEN (IF stack[Len(stack)].ev = eventName
          THEN stack[Len(stack)].handlers
          ELSE L[eventName])
    ELSE L[eventName]

\* var handlers = this._eventListeners[eventName] (133), once the test of
\* line 135 has passed.
Handlers(L, eventName) == L[eventName]

\* raiseEvent(eventName, data), called by user code (130-149): with no
\* handler it returns false at once, otherwise it starts the loop.
raiseEvent(eventName, data) ==
    /\ CanCall
    /\ LET check == CheckEventName(validEvents, eventName)
           handlers == IF HasHandlers(eventListeners, eventName.v)
                       THEN Handlers(eventListeners, eventName.v)
                       ELSE <<>>
       IN
        IF check # "ok"
        THEN /\ stack' = stack
             /\ ret' = [Thrown("raiseEvent", <<eventName>>, 0, check, eventListeners)
                           EXCEPT !.data = data]
        ELSE IF HasHandlers(eventListeners, eventName.v)
        THEN /\ stack' = Append(stack,
                    [ev |-> eventName.v, data |-> data, handlers |-> handlers,
                     i |-> 0, busy |-> FALSE,
                     startReg |-> eventListeners, invoked |-> <<>>])
             /\ ret' = NoRet
        ELSE /\ stack' = stack
             /\ ret' = [op |-> "raiseEvent", ev |-> eventName.v, ev2 |-> "",
                        fn |-> 0, data |-> data, result |-> "false",
                        error |-> "", names |-> <<eventName>>,
                        startReg |-> eventListeners, invoked |-> <<>>,
                        afterReg |-> eventListeners]
    /\ nOps' = nOps + 1
    /\ validEvents' = ValidEventsAfterCheck(validEvents, eventName)
    /\ UNCHANGED <<ctor, eventListeners, promises, calls>>

\* An innerHandler that forgets to remove itself.
SelfRemovalOnceStays(L, h) ==
    CASE h.kind \in {"fn", "once"} -> L
      [] OTHER -> RemoveFrom(RemoveFrom(L, h.s, SuccessOf(h)), h.f, FailureOf(h))

\* Closures that remove themselves only, never their partner.
SelfRemovalSelfOnly(L, h) ==
    CASE h.kind = "fn" -> L
      [] h.kind \in {"once", "awaitS", "cbS"} -> RemoveFrom(L, h.s, h)
      [] OTHER -> RemoveFrom(L, h.f, h)

\* What the closures do to the registry before they call on (93, 182-183,
\* 189-190, 218-219, 225-226); a user function does nothing by itself.
SelfRemoval(L, h) ==
    CASE h.kind = "fn" -> L
      [] h.kind = "once" -> RemoveFrom(L, h.s, h)
      [] OTHER -> RemoveFrom(RemoveFrom(L, h.s, SuccessOf(h)), h.f, FailureOf(h))

\* A callback called with its two arguments in the wrong order.
UserCallArgsSwapped(h, arg) ==
    CASE h.kind = "cbS" -> [kind |-> h.kind, a |-> arg, b |-> "null"]
      [] h.kind = "cbF" -> [kind |-> h.kind, a |-> "undefined", b |-> arg]
      [] OTHER -> [kind |-> h.kind, a |-> arg, b |-> ""]

\* The call a closure then makes (95, 185, 192, 221, 228): handler(data),
\* resolve(val), reject(err), callback(null, val), callback(err, undefined).
UserCall(h, arg) ==
    CASE h.kind = "cbS" -> [kind |-> h.kind, a |-> "null", b |-> arg]
      [] h.kind = "cbF" -> [kind |-> h.kind, a |-> arg, b |-> "undefined"]
      [] OTHER -> [kind |-> h.kind, a |-> arg, b |-> ""]

\* A failureHandler that calls resolve instead of reject.
SettledResolveOnly(P, h, arg) ==
    CASE h.kind \in {"awaitS", "awaitF"} -> Settle(P, h.id, "fulfilled", arg)
      [] OTHER -> P

\* The promises after the handler has run: only await's closures settle one.
Settled(P, h, arg) ==
    CASE h.kind = "awaitS" -> Settle(P, h.id, "fulfilled", arg)
      [] h.kind = "awaitF" -> Settle(P, h.id, "rejected", arg)
      [] OTHER -> P

\* One turn of the loop (142-144): handlers[i] is applied.  A closure of
\* await finishes by itself; every other handler hands over to user code
\* (the function, the wrapped handler or the callback), which runs until
\* HandlerReturn.  The frame notes the handler, its argument and the
\* registry before and after the closure's own removals.
Invoke ==
    /\ stack # <<>>
    /\ ~Top.busy
    /\ Top.i < Len(LoopHandlers(Top, eventListeners))
    /\ LET fr == Top
           h == LoopHandlers(fr, eventListeners)[fr.i + 1]
           arg == ApplyArg(fr)
           user == h.kind \notin {"awaitS", "awaitF"}
           after == SelfRemoval(eventListeners, h)
       IN
        /\ eventListeners' = after
        /\ promises' = Settled(promises, h, arg)
        /\ calls' = IF h.kind = "fn" THEN calls
                    ELSE [calls EXCEPT ![h.id].log = Append(@, UserCall(h, arg))]
        /\ stack' = [stack EXCEPT ![Len(stack)] =
               [fr EXCEPT !.busy = user,
                          !.i = IF user THEN fr.i ELSE fr.i + 1,
                          !.invoked = Append(@,
                              [h |-> h, arg |-> arg, threw |-> FALSE,
                               before |-> eventListeners, after |-> after])]]
    /\ UNCHANGED <<ctor, validEvents, ret, nOps>>

\* The user code of the handler being dispatched returns; the loop goes on.
HandlerReturn ==
    /\ stack # <<>>
    /\ Top.busy
    /\ stack' = [stack EXCEPT ![Len(stack)] = [Top EXCEPT !.busy = FALSE, !.i = @ + 1]]
    /\ ret' = NoRet
    /\ UNCHANGED <<ctor, validEvents, eventListeners, promises, calls, nOps>>

\* A loop that catches what a handler throws and goes on with the next one.
UnwindCaught(stk) ==
    [stk EXCEPT ![Len(stk)] = [@ EXCEPT !.busy = FALSE, !.i = @ + 1]]

\* The call stack after the handler being applied has thrown: the loop
\* (142-145) has no try / catch, so the raiseEvent call is over.
Unwind(stk) == SubSeq(stk, 1, Len(stk) - 1)

\* The user code of the handler being dispatched (a registered function,
\* the handler given to once, the callback given to cbOnce) throws: the
\* Error leaves raiseEvent and reaches the code that called it.
HandlerThrow ==
    /\ stack # <<>>
    /\ Top.busy
    /\ LET fr == [Top EXCEPT !.invoked[Len(Top.invoked)].threw = TRUE]
           marked == [stack EXCEPT ![Len(stack)] = fr]
       IN
        /\ stack' = Unwind(marked)
        /\ ret' = IF Len(Unwind(marked)) < Len(stack)
                  THEN [op |-> "raiseEvent", ev |-> fr.ev, ev2 |-> "", fn |-> 0,
                        data |-> fr.data, result |-> "throw",
                        error |-> "thrown by handler", names |-> <<Str(fr.ev)>>,
                        startReg |-> fr.startReg, invoked |-> fr.invoked,
                        afterReg |-> eventListeners]
                  ELSE NoRet
    /\ UNCHANGED <<ctor, validEvents, eventListeners, promises, calls, nOps>>

\* The loop is over: raiseEvent returns true to its caller (146).
raiseEventReturn ==
    /\ stack # <<>>
    /\ ~Top.busy
    /\ Top.i >= Len(LoopHandlers(Top, eventListeners))
    /\ ret' = [op |-> "raiseEvent", ev |-> Top.ev, ev2 |-> "", fn |-> 0,
               data |-> Top.data, result |-> "true",
               error |-> "", names |-> <<Str(Top.ev)>>,
               startReg |-> Top.startReg, invoked |-> Top.invoked,
               afterReg |-> eventListeners]
    /\ stack' = SubSeq(stack, 1, Len(stack) - 1)
    /\ UNCHANGED <<ctor, validEvents, eventListeners, promises, calls, nOps>>

\* An alias wired to the wrong method.
onForwardsToOnce(eventName, handler) == once(eventName, handler)

\* The aliases (76-78, 159-161).
on(eventName, handler) == addEventListener(eventName, handler)

emit(eventName, data) == raiseEvent(eventName, data)

\* ---------------------------------------------------------- specifications
\* Any method call user code can make.
Call ==
    \/ \E n \in Names, h \in Fns : addEventListener(n, h)
    \/ \E n \in Names, h \in Fns : removeEventListener(n, h)
    \/ \E n \in Names, h \in Callbacks : once(n, h)
    \/ \E n \in Names, d \in Data : raiseEvent(n, d)
    \/ \E p \in Pairs : await(p[1], p[2])
    \/ \E p \in Pairs, cb \in Callbacks : cbOnce(p[1], p[2], cb)

\* The hub's own steps while a raiseEvent is in flight.
Step == Invoke \/ HandlerReturn \/ raiseEventReturn

\* Re-entrant use: handler bodies call the hub too.
Next == Call \/ Step

Spec == Init /\ [][Next]_vars

\* Sequential use: only the top-level script calls the hub, and every
\* handler body just returns.
TopLevel == stack = <<>>

SeqCall ==
    \/ \E n \in Names, h \in Fns : TopLevel /\ addEventListener(n, h)
    \/ \E n \in Names, h \in Fns : TopLevel /\ removeEventListener(n, h)
    \/ \E n \in Names, h \in Callbacks : TopLevel /\ once(n, h)
    \/ \E n \in Names, d \in Data : TopLevel /\ raiseEvent(n, d)
    \/ \E p \in Pairs : TopLevel /\ await(p[1], p[2])
    \/ \E p \in Pairs, cb \in Callbacks : TopLevel /\ cbOnce(p[1], p[2], cb)

NextSeq == SeqCall \/ Step

SpecSeq == Init /\ [][NextSeq]_vars

\* Sequential use with handlers that may fail: every handler body either
\* returns or throws.
NextThrow == SeqCall \/ Step \/ HandlerThrow

SpecThrow == Init /\ [][NextThrow]_vars

\* Re-entrant use with handlers that may fail: a handler body calls the
\* hub, returns or throws; what a nested raiseEvent lets through reaches
\* the handler body that made the call.
NextReentrantThrow == Call \/ Step \/ HandlerThrow

SpecReentrantThrow == Init /\ [][NextReentrantThrow]_vars

\* Growing use: the script registers and emits, and the body of every
\* handler being applied registers further listeners on the event being
\* dispatched before it returns.
InHandler == stack # <<>> /\ Top.busy

GrowCall ==
    \/ \E n \in Names, h \in Fns : TopLevel /\ addEventListener(n, h)
    \/ \E n \in Names, h \in Callbacks : TopLevel /\ once(n, h)
    \/ \E n \in Names, d \in Data : TopLevel /\ raiseEvent(n, d)
    \/ \E h \in Fns : InHandler /\ addEventListener(Str(Top.ev), h)
    \/ \E h \in Callbacks : InHandler /\ once(Str(Top.ev), h)

NextGrow == GrowCall \/ Step

SpecGrow == Init /\ [][NextGrow]_vars

\* The same with the scheduling the code has: raiseEvent goes on to the
\* next handler and to its return statement by itself (142-146), and
\* every handler body terminates.
SpecGrowFair ==
    SpecGrow /\ WF_vars(Invoke) /\ WF_vars(HandlerReturn) /\ WF_vars(raiseEventReturn)

\* Chained use: the script is one expression hub.m1(...).m2(...)...; every
\* call after the first is made on the value the call before it returned,
\* which works as long as that value is the hub.
Chained == stack = <<>> /\ (nOps = 0 \/ (ret.op # "none" /\ ret.result = "this"))

ChainCall ==
    \/ \E n \in Names, h \in Fns : Chained /\ on(n, h)
    \/ \E n \in Names, h \in Fns : Chained /\ removeEventListener(n, h)
    \/ \E n \in Names, h \in Callbacks : Chained /\ once(n, h)
    \/ \E p \in Pairs, cb \in Callbacks : Chained /\ cbOnce(p[1], p[2], cb)
    \/ \E p \in Pairs : Chained /\ await(p[1], p[2])
    \/ \E n \in Names, d \in Data : Chained /\ emit(n, d)

NextChain == ChainCall \/ Step

SpecChain == Init /\ [][NextChain]_vars

\* Both spellings of registration and of dispatch, called by the script and
\* by handler bodies, with valid names and with an empty one.
AliasNames == {Str("s"), Str("f"), Str("")}

AliasCall ==
    \/ \E n \in AliasNames, h \in Fns : on(n, h)
    \/ \E n \in AliasNames, h \in Fns : addEventListener(n, h)
    \/ \E n \in AliasNames, d \in Data : emit(n, d)
    \/ \E n \in AliasNames, d \in Data : raiseEvent(n, d)

NextAlias == AliasCall \/ Step

SpecAlias == Init /\ [][NextAlias]_vars

\* Name validation: the hub is constructed with any kind of argument and the
\* top-level script calls every method with any kind of name.
AnyNames == {Str("s"), Str("f"), Str("x"), Str(""), Undefined, Num("7")}

AnyCtorArgs ==
    {CtorUndefined, CtorNull, CtorArray({}), CtorSet({}),
     CtorArray({Str("s"), Str("f")}), CtorSet({Str("s")}),
     CtorString(""), CtorString("s")}

InitNames == \E a \in AnyCtorArgs : Constructed(a)

\* The script makes one more call.
NameTurn == stack = <<>> /\ nOps < MaxNameOps

NameCall ==
    \/ \E n \in AnyNames, h \in Callbacks : NameTurn /\ addEventListener(n, h)
    \/ \E n \in AnyNames, h \in Callbacks : NameTurn /\ removeEventListener(n, h)
    \/ \E n \in AnyNames, h \in Callbacks : NameTurn /\ once(n, h)
    \/ \E n \in AnyNames : NameTurn /\ raiseEvent(n, "d1")
    \/ \E n \in AnyNames, m \in AnyNames : NameTurn /\ await(n, m)
    \/ \E n \in AnyNames, m \in AnyNames, cb \in Callbacks :
          NameTurn /\ cbOnce(n, m, cb)

NextNames == NameCall \/ Step

SpecNames == InitNames /\ [][NextNames]_vars

\* ------------------------------------------------------------------ claims
\* The handler array of the raised event when the call r started.
StartSeq(r) == GetListenersForEvent(r.startReg, r.ev)

\* The handlers a call has applied so far, in order.
Applied(r) == [j \in 1..Len(r.invoked) |-> r.invoked[j].h]

Has(arr, h) == \E j \in 1..Len(arr) : arr[j] = h

\* C1: a raiseEvent (emit) on an event that had N >= 1 handlers when it was
\* called returns true, and has applied each of the N registrations exactly
\* once, in registration order, each with the data value passed to it.
C1_EmitInvokesAllInOrder ==
    (ret.op = "raiseEvent" /\ Len(StartSeq(ret)) >= 1) =>
        /\ ret.result = "true"
        /\ Applied(ret) = StartSeq(ret)
        /\ \A j \in 1..Len(ret.invoked) : ret.invoked[j].arg = ret.data

\* An emission of two different handlers has returned.
C1_Witness ==
    /\ ret.op = "raiseEvent"
    /\ ret.result = "true"
    /\ Len(StartSeq(ret)) = 2
    /\ StartSeq(ret)[1] # StartSeq(ret)[2]
    /\ Len(ret.invoked) = 2

\* C2: snapshot rule.  Whatever the handlers do to the registry while they
\* run, every raiseEvent in flight has applied exactly a prefix of the
\* handler array its event had when it started, and has applied all of it
\* when it returns: a handler added meanwhile is not applied by it, one
\* removed meanwhile still is.
C2_SnapshotRule ==
    /\ \A d \in 1..Len(stack) :
          LET fr == stack[d] IN
          /\ Len(fr.invoked) = fr.i + (IF fr.busy THEN 1 ELSE 0)
          /\ Len(fr.invoked) <= Len(StartSeq(fr))
          /\ Applied(fr) = SubSeq(StartSeq(fr), 1, Len(fr.invoked))
    /\ (ret.op = "raiseEvent" /\ ret.result = "true") =>
          Applied(ret) = StartSeq(ret)

\* An emission has returned in which a user function that an earlier handler
\* had removed from the event's array was applied all the same.
C2_Witness ==
    /\ ret.op = "raiseEvent"
    /\ ret.result = "true"
    /\ \E j \in 2..Len(ret.invoked) :
          /\ ret.invoked[j].h.kind = "fn"
          /\ ~Has(GetListenersForEvent(ret.invoked[j].before, ret.ev), ret.invoked[j].h)

\* The current handler array of event e.
Reg(e) == GetListenersForEvent(eventListeners, e)

Count(arr, h) == Cardinality({j \in 1..Len(arr) : arr[j] = h})

Without(arr, h) == SelectSeq(arr, LAMBDA x : x # h)

\* The once / await / cbOnce calls made so far, and the closures of each.
OnceIds == {k \in DOMAIN calls : calls[k].op = "once"}
AwaitIds == {k \in DOMAIN calls : calls[k].op = "await"}
CbIds == {k \in DOMAIN calls : calls[k].op = "cbOnce"}
Adapter(k) == InnerHandler(k, calls[k].s, calls[k].cb)
SuccessHandler(k) ==
    IF calls[k].op = "await"
    THEN AwaitSuccessHandler(k, calls[k].s, calls[k].f)
    ELSE CbSuccessHandler(k, calls[k].s, calls[k].f, calls[k].cb)
FailureHandler(k) == FailureOf(SuccessHandler(k))

\* C3: in sequential use a handler registered with once is called by the
\* first raiseEvent of its event that finds it registered, with that call's
\* data, and by no later one; when it was the only registration that
\* raiseEvent returns true and leaves the array empty, and a raiseEvent on
\* an empty array returns false and calls nothing.
C3_OnceFiresOnFirstEmitOnly ==
    \A k \in OnceIds :
        LET c == calls[k]
            a == Adapter(k)
            emitted == ret.op = "raiseEvent" /\ ret.ev = c.s
        IN
        /\ Len(c.log) <= 1
        /\ Has(Reg(c.s), a) => c.log = <<>>
        /\ (emitted /\ Has(StartSeq(ret), a)) =>
              /\ c.log = <<[kind |-> "once", a |-> ret.data, b |-> ""]>>
              /\ ~Has(GetListenersForEvent(ret.afterReg, c.s), a)
        /\ (emitted /\ StartSeq(ret) = <<a>>) =>
              /\ ret.result = "true"
              /\ GetListenersForEvent(ret.afterReg, c.s) = <<>>
        /\ (emitted /\ StartSeq(ret) = <<>>) =>
              /\ ret.result = "false"
              /\ ret.invoked = <<>>

\* After a once handler has fired, a further raiseEvent of its event has
\* found no handler and returned false.
C3_Witness ==
    \E k \in OnceIds :
        /\ Len(calls[k].log) = 1
        /\ ret.op = "raiseEvent"
        /\ ret.ev = calls[k].s
        /\ ret.result = "false"

\* C4: whatever the calls, re-entrant raiseEvent included, the handler given
\* to one once call is called at most once.
C4_OnceAtMostOnceEver ==
    \A k \in OnceIds : Len(calls[k].log) <= 1

\* C5: removeEventListener of a handler that is not registered for the event
\* leaves the whole registry as it was.
C5_RemoveAbsentIsNoOp ==
    (/\ ret.op = "removeEventListener"
     /\ ~Has(GetListenersForEvent(ret.startReg, ret.ev), Fn(ret.fn))) =>
        ret.afterReg = ret.startReg

\* C6: removeEventListener of a registered handler removes its first
\* occurrence and nothing else: the rest of the event's array keeps its
\* order, the other events keep their arrays; and an emission calls a user
\* function once per occurrence left in the array.
C6_RemoveFirstOccurrenceOnly ==
    /\ (/\ ret.op = "removeEventListener"
        /\ Has(GetListenersForEvent(ret.startReg, ret.ev), Fn(ret.fn))) =>
          LET arr == ret.startReg[ret.ev]
              j == CHOOSE x \in 1..Len(arr) :
                       arr[x] = Fn(ret.fn) /\ \A m \in 1..(x - 1) : arr[m] # Fn(ret.fn)
          IN
          /\ DOMAIN ret.afterReg = DOMAIN ret.startReg
          /\ ret.afterReg[ret.ev] = SubSeq(arr, 1, j - 1) \o SubSeq(arr, j + 1, Len(arr))
          /\ \A n \in DOMAIN ret.startReg \ {ret.ev} : ret.afterReg[n] = ret.startReg[n]
    /\ (ret.op = "raiseEvent" /\ ret.result = "true") =>
          \A h \in Fns : Count(Applied(ret), Fn(h)) = Count(StartSeq(ret), Fn(h))

\* A handler registered twice with another one in between has been removed
\* once.
C6_Witness ==
    /\ ret.op = "removeEventListener"
    /\ Len(GetListenersForEvent(ret.startReg, ret.ev)) = 3
    /\ Count(ret.startReg[ret.ev], Fn(ret.fn)) = 2
    /\ ret.startReg[ret.ev][2] # Fn(ret.fn)
    /\ Count(ret.afterReg[ret.ev], Fn(ret.fn)) = 1

\* The handler array event e had when the call r started / when it returned.
StartOf(r, e) == GetListenersForEvent(r.startReg, e)
AfterOf(r, e) == GetListenersForEvent(r.afterReg, e)

\* C7: in sequential use, a raiseEvent that finds the two closures of one
\* cbOnce call as the only listeners of its success and failure events
\* returns true, has called the callback exactly once, with (null, data) for
\* the success event and (err, undefined) for the failure event, and leaves
\* both arrays empty; the callback is never called a second time, and a
\* raiseEvent on an empty array returns false and calls nothing.
C7_CbOnceCalledExactlyOnce ==
    \A k \in CbIds :
        LET c == calls[k]
            alone == /\ ret.op = "raiseEvent"
                     /\ StartOf(ret, c.s) = <<SuccessHandler(k)>>
                     /\ StartOf(ret, c.f) = <<FailureHandler(k)>>
        IN
        /\ Len(c.log) <= 1
        /\ c.log # <<>> =>
              /\ ~Has(Reg(c.s), SuccessHandler(k))
              /\ ~Has(Reg(c.f), FailureHandler(k))
        /\ (alone /\ ret.ev = c.s) =>
              /\ ret.result = "true"
              /\ c.log = <<[kind |-> "cbS", a |-> "null", b |-> ret.data]>>
              /\ AfterOf(ret, c.s) = <<>> /\ AfterOf(ret, c.f) = <<>>
        /\ (alone /\ ret.ev = c.f) =>
              /\ ret.result = "true"
              /\ c.log = <<[kind |-> "cbF", a |-> ret.data, b |-> "undefined"]>>
              /\ AfterOf(ret, c.s) = <<>> /\ AfterOf(ret, c.f) = <<>>
        /\ (ret.op = "raiseEvent" /\ ret.ev \in {c.s, c.f} /\ StartSeq(ret) = <<>>) =>
              /\ ret.result = "false"
              /\ ret.invoked = <<>>

\* cbOnce on a fresh hub, the success event raised (callback called with
\* null and the data), and after two more calls a raiseEvent of the failure
\* event has returned false.
C7_Witness ==
    /\ 1 \in CbIds
    /\ nOps = 4
    /\ Len(calls[1].log) = 1
    /\ calls[1].log[1].a = "null"
    /\ calls[1].log[1].b \in Data
    /\ ret.op = "raiseEvent"
    /\ ret.ev = calls[1].f
    /\ ret.result = "false"
    /\ StartOf(ret, calls[1].s) = <<>>

\* C8: when the success handler of an await is the first of its two
\* closures to be applied, the promise is fulfilled with the data of that
\* raiseEvent, both closures are out of the registry, and it stays so: no
\* later raiseEvent of the failure event finds the failure handler or
\* rejects the promise.
C8_AwaitResolvesOnSuccessFirst ==
    \A k \in AwaitIds :
        LET c == calls[k] IN
        (c.log # <<>> /\ c.log[1].kind = "awaitS") =>
            /\ promises[k] = [state |-> "fulfilled", value |-> c.log[1].a]
            /\ ~Has(Reg(c.s), SuccessHandler(k))
            /\ ~Has(Reg(c.f), FailureHandler(k))
            /\ (/\ ret.op = "raiseEvent" /\ ret.ev = c.s
                /\ Has(Applied(ret), SuccessHandler(k)) /\ Len(c.log) = 1) =>
                   promises[k].value = ret.data

\* An await was fulfilled by the success event, and a later raiseEvent of
\* the failure event has returned false.
C8_Witness ==
    \E k \in AwaitIds :
        /\ promises[k].state = "fulfilled"
        /\ ret.op = "raiseEvent"
        /\ ret.ev = calls[k].f
        /\ ret.result = "false"

\* C9: when the failure handler of an await is the first of its two
\* closures to be applied, the promise is rejected with the data of that
\* raiseEvent, both closures are out of the registry, and it stays so: no
\* later raiseEvent of the success event finds the success handler or
\* fulfils the promise.
C9_AwaitRejectsOnFailureFirst ==
    \A k \in AwaitIds :
        LET c == calls[k] IN
        (c.log # <<>> /\ c.log[1].kind = "awaitF") =>
            /\ promises[k] = [state |-> "rejected", value |-> c.log[1].a]
            /\ ~Has(Reg(c.s), SuccessHandler(k))
            /\ ~Has(Reg(c.f), FailureHandler(k))
            /\ (/\ ret.op = "raiseEvent" /\ ret.ev = c.f
                /\ Has(Applied(ret), FailureHandler(k)) /\ Len(c.log) = 1) =>
                   promises[k].value = ret.data

\* An await was rejected by the failure event, and a later raiseEvent of
\* the success event has returned false.
C9_Witness ==
    \E k \in AwaitIds :
        /\ promises[k].state = "rejected"
        /\ ret.op = "raiseEvent"
        /\ ret.ev = calls[k].s
        /\ ret.result = "false"

\* C10: in sequential use, a raiseEvent of the success event that finds two
\* awaits of the same pair registered fulfils both promises with its data
\* and leaves none of their four closures registered; and a success handler
\* applied while its own pair is registered takes exactly that pair out of
\* the two arrays, nothing else.
C10_TwoAwaitsBothSettle ==
    /\ \A j \in AwaitIds : \A k \in AwaitIds \ {j} :
          (/\ ret.op = "raiseEvent"
           /\ calls[j].s = calls[k].s /\ calls[j].f = calls[k].f
           /\ ret.ev = calls[j].s
           /\ \A x \in {j, k} :
                 /\ Has(StartOf(ret, calls[x].s), SuccessHandler(x))
                 /\ Has(StartOf(ret, calls[x].f), FailureHandler(x))) =>
              /\ ret.result = "true"
              /\ \A x \in {j, k} :
                    /\ promises[x] = [state |-> "fulfilled", value |-> ret.data]
                    /\ ~Has(AfterOf(ret, calls[x].s), SuccessHandler(x))
                    /\ ~Has(AfterOf(ret, calls[x].f), FailureHandler(x))
    /\ \A d \in 1..Len(stack) : \A n \in 1..Len(stack[d].invoked) :
          LET e == stack[d].invoked[n]
              s == e.h.s
              f == e.h.f
          IN
          (/\ e.h.kind = "awaitS"
           /\ Has(GetListenersForEvent(e.before, s), e.h)
           /\ Has(GetListenersForEvent(e.before, f), FailureOf(e.h))) =>
              /\ GetListenersForEvent(e.after, s) =
                     Without(GetListenersForEvent(e.before, s), e.h)
              /\ GetListenersForEvent(e.after, f) =
                     Without(GetListenersForEvent(e.before, f), FailureOf(e.h))

\* One raiseEvent found two awaits registered and has fulfilled both.
C10_Witness ==
    \E j \in AwaitIds : \E k \in AwaitIds \ {j} :
        /\ ret.op = "raiseEvent"
        /\ ret.result = "true"
        /\ Has(Applied(ret), SuccessHandler(j))
        /\ Has(Applied(ret), SuccessHandler(k))
        /\ promises[j].state = "fulfilled"
        /\ promises[k].state = "fulfilled"

\* C11: a raiseEvent (emit) of a valid name whose handler array is absent,
\* or present but emptied by removals, returns false, applies no handler and
\* leaves the registry as it was; no dispatch loop is ever started on an
\* empty array.
C11_EmitNoHandlersReturnsFalse ==
    /\ (ret.op = "raiseEvent" /\ ret.result # "throw" /\ StartSeq(ret) = <<>>) =>
          /\ ret.result = "false"
          /\ ret.invoked = <<>>
          /\ ret.afterReg = ret.startReg
          /\ eventListeners = ret.startReg
    /\ \A d \in 1..Len(stack) : StartSeq(stack[d]) # <<>>

\* A raiseEvent has returned false on an event whose array exists but was
\* emptied, while another event still has a handler.
C11_Witness ==
    /\ ret.op = "raiseEvent"
    /\ ret.result = "false"
    /\ ret.ev \in DOMAIN ret.startReg
    /\ ret.startReg[ret.ev] = <<>>
    /\ \E e \in DOMAIN eventListeners : eventListeners[e] # <<>>

\* The two kinds of error of the specification, by the message of the Error
\* the code throws.
InvalidArgument(msg) ==
    msg \in {"Event name unspecified", "Event name must be string",
             "Identical event name for success and failure"}
UnknownEvent(msg) == msg = "Unknown event name"

\* A call has finished (returned or thrown) and nothing has run since.
Finished == ret.op # "none"
\* The finished call threw, and had no effect at all: nothing applied, the
\* registry as before, no closure and no promise made.
NoEffect ==
    /\ ret.result = "throw"
    /\ ret.invoked = <<>>
    /\ ret.afterReg = ret.startReg
    /\ eventListeners = ret.startReg
    /\ nOps \notin DOMAIN calls
    /\ nOps \notin DOMAIN promises

\* The hub was constructed from a collection with at least one name.
HasAllowList == ctor.error = "" /\ ctor.arg.t \in {"array", "set"} /\ ctor.arg.items # {}
\* A name that is empty, absent or not a string.
BadShape(n) == n.t # "string" \/ n.v = ""
\* A non-empty string the collection given to the constructor does not hold.
Outside(n) == ~BadShape(n) /\ ctor.arg.t \in {"array", "set"} /\ n \notin ctor.arg.items
\* The first name of the finished call, in argument order, that is bad.
AnyBad(names) == \E j \in 1..Len(names) : BadShape(names[j]) \/ Outside(names[j])
FirstBad(names) ==
    names[CHOOSE j \in 1..Len(names) :
              /\ BadShape(names[j]) \/ Outside(names[j])
              /\ \A m \in 1..(j - 1) : ~(BadShape(names[m]) \/ Outside(names[m]))]
\* Names inside the list, and two different ones where two are given.
AllInside(names) ==
    /\ \A j \in 1..Len(names) : ~BadShape(names[j]) /\ names[j] \in ctor.arg.items
    /\ Len(names) = 2 => names[1] # names[2]

\* C12 as stated: on a hub with an allow-list, a call given a non-empty
\* string name outside the list throws the UnknownEvent error, with no
\* effect; a call given names inside the list succeeds.
C12_OutsideListAlwaysUnknownEvent ==
    (HasAllowList /\ Finished) =>
        /\ (\E j \in 1..Len(ret.names) : Outside(ret.names[j])) =>
              NoEffect /\ UnknownEvent(ret.error)
        /\ AllInside(ret.names) => ret.result # "throw"

\* C12, amended: on a hub with an allow-list, a call whose first bad name
\* (in argument order) is a non-empty string outside the list throws the
\* UnknownEvent error, with no effect; a call given names inside the list
\* (two different ones for await and cbOnce) succeeds, and every dispatch in
\* flight is for a name inside the list.
C12_FirstBadOutsideListUnknownEvent ==
    HasAllowList =>
        /\ Finished =>
              /\ (AnyBad(ret.names) /\ Outside(FirstBad(ret.names))) =>
                    NoEffect /\ UnknownEvent(ret.error)
              /\ AllInside(ret.names) => ret.result # "throw"
        /\ \A d \in 1..Len(stack) : Str(stack[d].ev) \in ctor.arg.items

\* With a handler registered on a hub with an allow-list, await was called
\* with a listed success name and an unlisted failure name and threw.
C12_Witness ==
    /\ HasAllowList
    /\ ret.op = "await"
    /\ ret.names[1] \in ctor.arg.items
    /\ Outside(ret.names[2])
    /\ UnknownEvent(ret.error)
    /\ \E e \in DOMAIN eventListeners : eventListeners[e] # <<>>

\* The constructor was given no allow-list: no argument, null, or an empty
\* array or Set.
NoAllowList ==
    ctor.arg \in {CtorUndefined, CtorNull, CtorArray({}), CtorSet({})}

\* C13: on a hub constructed with no argument, null, an empty array or an
\* empty Set, no call given non-empty string names throws the UnknownEvent
\* error.
C13_NoAllowListAcceptsEveryName ==
    (/\ NoAllowList
     /\ Finished
     /\ \A j \in 1..Len(ret.names) : ~BadShape(ret.names[j])) =>
        ~UnknownEvent(ret.error)

\* C14: the constructor throws for every argument that is a string.
C14_BareStringAlwaysThrows ==
    ctor.arg.t = "string" => ctor.error # ""

\* C15 as stated: a call given a name that is empty, absent or not a string
\* throws an InvalidArgument error, with no effect, on a hub with an
\* allow-list and on a hub constructed with no argument or null.
C15_BadShapeAlwaysInvalidArgument ==
    (/\ HasAllowList \/ ctor.arg \in {CtorUndefined, CtorNull}
     /\ Finished
     /\ \E j \in 1..Len(ret.names) : BadShape(ret.names[j])) =>
        NoEffect /\ InvalidArgument(ret.error)

\* C15, amended: a call whose first bad name (in argument order) is empty,
\* absent or not a string throws an InvalidArgument error, with no effect,
\* whatever the hub was constructed with; a call with any bad name throws
\* and has no effect.
C15_FirstBadShapeInvalidArgument ==
    (Finished /\ AnyBad(ret.names)) =>
        /\ NoEffect
        /\ BadShape(FirstBad(ret.names)) => InvalidArgument(ret.error)

\* With a handler registered, cbOnce was called with a valid success name
\* and a failure name that is not a string, and threw.
C15_Witness ==
    /\ ret.op = "cbOnce"
    /\ ~AnyBad(<<ret.names[1]>>)
    /\ ret.names[2].t = "number"
    /\ ret.error = "Event name must be string"
    /\ \E e \in DOMAIN eventListeners : eventListeners[e] # <<>>

\* C16: await and cbOnce called with the same valid name twice throw the
\* InvalidArgument error for identical names: no promise is made, no
\* closure is registered on any event, and the callback is never called.
C16_IdenticalNamesThrow ==
    (/\ ret.op \in {"await", "cbOnce"}
     /\ ret.names[1] = ret.names[2]
     /\ ~AnyBad(ret.names)) =>
        /\ NoEffect
        /\ ret.error = "Identical event name for success and failure"
        /\ InvalidArgument(ret.error)

\* With a handler registered on the event, cbOnce was called with that
\* event as both names and threw.
C16_Witness ==
    /\ ret.op = "cbOnce"
    /\ ret.result = "throw"
    /\ ret.names[1] = ret.names[2]
    /\ ~AnyBad(ret.names)
    /\ GetListenersForEvent(eventListeners, ret.names[1].v) # <<>>

\* The array arr without the one-shot closures among the handlers in done.
WithoutClosures(arr, done) ==
    SelectSeq(arr, LAMBDA x : x.kind = "fn" \/ ~Has(done, x))

C18_NoDeduplication ==
    /\ (ret.op = "addEventListener" /\ ret.result # "throw") =>
          /\ AfterOf(ret, ret.ev) = Append(StartOf(ret, ret.ev), Fn(ret.fn))
          /\ Count(AfterOf(ret, ret.ev), Fn(ret.fn)) =
                 Count(StartOf(ret, ret.ev), Fn(ret.fn)) + 1
    /\ (ret.op = "raiseEvent" /\ ret.result = "true") =>
          \A h \in Fns :
              Cardinality({j \in 1..Len(ret.invoked) : ret.invoked[j].h = Fn(h)}) =
                  Count(StartSeq(ret), Fn(h))
    /\ (/\ ret.op = "removeEventListener" /\ ret.result # "throw"
        /\ Count(StartOf(ret, ret.ev), Fn(ret.fn)) >= 1) =>
          Count(AfterOf(ret, ret.ev), Fn(ret.fn)) =
              Count(StartOf(ret, ret.ev), Fn(ret.fn)) - 1

\* One raiseEvent has applied the same function twice, once for each of
\* its two registrations.
C18_Witness ==
    /\ ret.op = "raiseEvent"
    /\ ret.result = "true"
    /\ \E h \in Fns : Applied(ret) = <<Fn(h), Fn(h)>>

\* C19: in sequential use a raiseEvent of e applies only handlers that were
\* registered under e when it was called, whatever is registered under the
\* other names; and when the handlers it applied are user functions and
\* once adapters (which touch no other event), the arrays of all other
\* event names are the same after the call as before it.
C19_OnlyHandlersOfTheEvent ==
    /\ \A d \in 1..Len(stack) : \A j \in 1..Len(stack[d].invoked) :
          /\ stack[d].ev \in DOMAIN stack[d].startReg
          /\ \E m \in 1..Len(stack[d].startReg[stack[d].ev]) :
                stack[d].startReg[stack[d].ev][m] = stack[d].invoked[j].h
    /\ (ret.op = "raiseEvent" /\ ret.result # "throw") =>
          /\ \A j \in 1..Len(ret.invoked) :
                /\ ret.ev \in DOMAIN ret.startReg
                /\ \E m \in 1..Len(ret.startReg[ret.ev]) :
                      ret.startReg[ret.ev][m] = ret.invoked[j].h
          /\ (\A j \in 1..Len(ret.invoked) : ret.invoked[j].h.kind \in {"fn", "once"}) =>
                /\ DOMAIN ret.afterReg = DOMAIN ret.startReg
                /\ \A n \in DOMAIN ret.startReg \ {ret.ev} :
                      ret.afterReg[n] = ret.startReg[n]

\* A raiseEvent has returned true while another event held a user function
\* that is not registered under the raised event: it was not applied and
\* is still registered there.
C19_Witness ==
    /\ ret.op = "raiseEvent"
    /\ ret.result = "true"
    /\ \E n \in DOMAIN ret.startReg \ {ret.ev} : \E h \in Fns :
          /\ Has(ret.startReg[n], Fn(h))
          /\ ~Has(ret.startReg[ret.ev], Fn(h))
          /\ ~Has(Applied(ret), Fn(h))
          /\ Has(Reg(n), Fn(h))

\* C20: every addEventListener / on, removeEventListener, once and cbOnce
\* call that does not throw returns the hub it was called on; so in a
\* chained expression each further call acts on that same hub: an on made
\* on the value a previous call returned appends its handler to the array
\* the hub had after that call.
C20_ChainableMethodsReturnHub ==
    /\ (/\ ret.op \in {"addEventListener", "removeEventListener", "once", "cbOnce"}
        /\ ret.result # "throw") =>
          ret.result = "this"
    /\ (ret.op = "addEventListener" /\ nOps >= 2) =>
          /\ AfterOf(ret, ret.ev) = Append(StartOf(ret, ret.ev), Fn(ret.fn))
          /\ eventListeners = ret.afterReg

\* hub.on(e, h1).on(e, h2): the second call was made on the value the first
\* returned, and the event's array is h1, h2.
C20_Witness ==
    /\ nOps = 2
    /\ ret.op = "addEventListener"
    /\ ret.result = "this"
    /\ \E e \in DOMAIN eventListeners : \E h1 \in Fns : \E h2 \in Fns \ {h1} :
          eventListeners[e] = <<Fn(h1), Fn(h2)>>

\* C21: the aliases carry no semantics of their own.  Every step an
\* on(e, h) call can take is the step addEventListener(e, h) takes from the
\* same state, and the other way round: same registry, same result, same
\* Error; likewise every step of emit(e, d) is the step of raiseEvent(e, d):
\* same copy of the handler array to walk, same data, same boolean or Error.
C21_AliasesAreForwards ==
    [][/\ \A n \in AliasNames, h \in Fns :
             on(n, h) <=> addEventListener(n, h)
       /\ \A n \in AliasNames, d \in Data :
             emit(n, d) <=> raiseEvent(n, d)]_vars

\* After two registrations, made with either spelling, a dispatch made with
\* either spelling has applied two handlers and returned true.
C21_Witness ==
    /\ ret.op = "raiseEvent"
    /\ ret.result = "true"
    /\ Len(ret.invoked) = 2
    /\ nOps = 4

\* C22: whatever raiseEvent calls follow one cbOnce, those made from inside
\* a handler of its success or failure event included, the callback is
\* called at most once.
C22_CbOnceCallbackAtMostOnceEver ==
    \A k \in CbIds : Len(calls[k].log) <= 1

\* C23: whatever raiseEvent calls follow one await, re-entrant ones in which
\* both of its closures are applied included, the promise settles once: its
\* state and value are those the closure applied first gave it, resolve for
\* the success handler and reject for the failure handler, each with the
\* data that closure was applied to, and nothing later changes them.
C23_AwaitSettlesOnceFirstWins ==
    \A k \in AwaitIds :
        LET c == calls[k] IN
        /\ c.log = <<>> => promises[k] = Pending
        /\ c.log # <<>> =>
              promises[k] =
                  [state |-> IF c.log[1].kind = "awaitS" THEN "fulfilled" ELSE "rejected",
                   value |-> c.log[1].a]

\* Both closures of one await have been applied, the failure handler first
\* and the success handler later with other data, and the promise is
\* rejected with the data of the first.
C23_Witness ==
    \E k \in AwaitIds :
        /\ Len(calls[k].log) = 2
        /\ calls[k].log[1].kind = "awaitF"
        /\ calls[k].log[2].kind = "awaitS"
        /\ calls[k].log[1].a # calls[k].log[2].a
        /\ promises[k] = [state |-> "rejected", value |-> calls[k].log[1].a]

\* C24: what handlers do to the registry while they run counts for every
\* raiseEvent that starts afterwards, one nested in the same handler
\* included.  Every raiseEvent that starts a dispatch walks exactly the
\* array its event has at that moment, with every handler added so far and
\* without any removed so far; one that returns false found that array
\* absent or empty; and one that returns true has applied exactly the array
\* it started with.
C24_MutationsCountForLaterEmissions ==
    [][/\ Len(stack') = Len(stack) + 1 =>
             /\ stack'[Len(stack')].handlers =
                    GetListenersForEvent(eventListeners, stack'[Len(stack')].ev)
             /\ stack'[Len(stack')].handlers # <<>>
       /\ (nOps' = nOps + 1 /\ ret'.op = "raiseEvent" /\ ret'.result = "false") =>
             GetListenersForEvent(eventListeners, ret'.ev) = <<>>
       /\ (Len(stack') = Len(stack) - 1 /\ ret'.result = "true") =>
             [j \in 1..Len(ret'.invoked) |-> ret'.invoked[j].h] =
                 stack[Len(stack)].handlers]_vars

\* Inside a dispatch of e whose copy held one handler, that handler added a
\* second function to e and then raised e again: the nested dispatch has
\* returned true after applying both.
C24_Witness ==
    /\ Len(stack) = 1
    /\ stack[1].busy
    /\ Len(stack[1].handlers) = 1
    /\ ret.op = "raiseEvent"
    /\ ret.ev = stack[1].ev
    /\ ret.result = "true"
    /\ Len(ret.invoked) = 2
    /\ ret.invoked[2].h.kind = "fn"
    /\ ~Has(stack[1].handlers, ret.invoked[2].h)

\* ------------------------------------------------------------------ C25
\* The adapters of once that have been applied at least once.
AppliedOnce == {k \in OnceIds : calls[k].log # <<>>}

\* C25: innerHandler removes itself before it calls the wrapped handler.
\* On every step: when an adapter of once hands over to the wrapped
\* handler it is in no sequence of the registry; a dispatch that starts
\* once an adapter has been applied (from inside the wrapped handler or
\* later) does not have that adapter among the handlers it will apply;
\* and when a wrapped handler throws, its adapter is in no sequence.
C25_OnceDeregistersBeforeCall ==
    [][/\ (/\ Len(stack') = Len(stack) /\ stack # <<>>
           /\ ~stack[Len(stack)].busy /\ stack'[Len(stack')].busy
           /\ stack'[Len(stack')].invoked[Len(stack'[Len(stack')].invoked)].h.kind = "once")
          => LET h == stack'[Len(stack')].invoked[Len(stack'[Len(stack')].invoked)].h
             IN \A e \in DOMAIN eventListeners' : ~Has(eventListeners'[e], h)
       /\ Len(stack') = Len(stack) + 1
          => \A k \in AppliedOnce : ~Has(stack'[Len(stack')].handlers, Adapter(k))
       /\ (Len(stack') = Len(stack) - 1 /\ ret'.result = "throw"
           /\ ret'.invoked[Len(ret'.invoked)].h.kind = "once")
          => /\ ret'.invoked[Len(ret'.invoked)].threw
             /\ \A e \in DOMAIN eventListeners' :
                    ~Has(eventListeners'[e], ret'.invoked[Len(ret'.invoked)].h)]_vars

\* A wrapped handler is running, the emit it issued on its own event has
\* applied another adapter of once and not its own, that adapter's wrapped
\* handler has thrown, and the event has no handler left.
C25_Witness ==
    /\ Len(stack) = 1 /\ stack[1].busy
    /\ stack[1].invoked[Len(stack[1].invoked)].h.kind = "once"
    /\ ret.op = "raiseEvent" /\ ret.ev = stack[1].ev /\ ret.result = "throw"
    /\ Len(ret.invoked) = 1
    /\ ret.invoked[1].h.kind = "once" /\ ret.invoked[1].threw
    /\ ret.invoked[1].h # stack[1].invoked[Len(stack[1].invoked)].h
    /\ Reg(ret.ev) = <<>>

\* ------------------------------------------------------------------ C26
\* A sequence without the closures made by the call that made h.
OthersOf(arr, h) == SelectSeq(arr, LAMBDA x : x.kind = "fn" \/ x.id # h.id)

\* Applying the handler of entry x took no registration of another call
\* out of any sequence.
RemovesOwnOnly(x) ==
    \A e \in DOMAIN x.before : OthersOf(x.after[e], x.h) = OthersOf(x.before[e], x.h)

\* C26: a closure of once / await / cbOnce that is applied removes only
\* closures of its own call: the registrations of every other call are in
\* the registry after it exactly as before it, in every dispatch in
\* flight and in the dispatch that has just ended.
C26_OneShotRemovesOwnOnly ==
    /\ \A i \in 1..Len(stack) : \A j \in 1..Len(stack[i].invoked) :
            RemovesOwnOnly(stack[i].invoked[j])
    /\ ret.op = "raiseEvent" =>
            \A j \in 1..Len(ret.invoked) : RemovesOwnOnly(ret.invoked[j])

\* ------------------------------------------------------------------ C27
\* C27: an emission whose handlers terminate ends, whatever its handlers
\* register on its event meanwhile.  A dispatch in flight has applied at
\* most as many handlers as the event's sequence held when it started; a
\* dispatch that has returned applied exactly that many; and every
\* dispatch in flight returns.
C27_EmitTerminatesWithStartLength ==
    /\ [](\A i \in 1..Len(stack) :
            Len(stack[i].invoked) <=
                Len(GetListenersForEvent(stack[i].startReg, stack[i].ev)))
    /\ []((ret.op = "raiseEvent" /\ ret.result = "true") =>
            Len(ret.invoked) = Len(StartSeq(ret)))
    /\ (stack # <<>>) ~> (stack = <<>> /\ ret.op = "raiseEvent" /\ ret.result = "true")

\* An emission has returned after applying the one handler its event had
\* when it started, and that handler registered two more on the event
\* while it ran.
C27_Witness ==
    /\ stack = <<>> /\ ret.op = "raiseEvent" /\ ret.result = "true"
    /\ Len(ret.invoked) = 1
    /\ Len(StartSeq(ret)) = 1
    /\ Len(GetListenersForEvent(ret.afterReg, ret.ev)) = 3

\* ------------------------------------------------------------------ C28
\* C28: await and cbOnce check both names, and that they differ, before
\* they register anything.  When the success name passes its check and
\* the failure name does not (empty, not a string, or not in the
\* collection given to the constructor), the call throws and has had no
\* effect: the success event has the handlers it had, and so has every
\* other event.
C28_FailureNameCheckedBeforeRegistering ==
    (/\ ret.op \in {"await", "cbOnce"}
     /\ Valid(ret.names[1])
     /\ ~Valid(ret.names[2])) =>
        /\ ret.result = "throw"
        /\ ret.error = CheckEventName(validEvents, ret.names[2])
        /\ Reg(ret.names[1].v) = GetListenersForEvent(ret.startReg, ret.names[1].v)
        /\ NoEffect

\* With a handler registered on the success event, await was called with
\* that event and a failure name the collection does not hold, and threw.
C28_Witness ==
    /\ ret.op = "await"
    /\ ret.result = "throw"
    /\ Valid(ret.names[1])
    /\ Outside(ret.names[2])
    /\ Reg(ret.names[1].v) # <<>>

\* ------------------------------------------------------------------ C29
\* C29: the set of allowed names is fixed by the constructor.  No step of
\* any call, returning or throwing, changes this._validEvents, so every
\* name gets the same verdict from the check after the step as before it;
\* and of two calls in a row that are given the same name, the second
\* throws the Error the first threw, or none if the first threw none.
C29_AllowListFixedAtConstruction ==
    [][/\ validEvents' = validEvents
       /\ validEvents' = Constructor(ctor.arg)
       /\ \A n \in AnyNames :
              CheckEventName(validEvents', n) = CheckEventName(validEvents, n)
       /\ (/\ nOps' = nOps + 1
           /\ ret.op # "none" /\ ret'.op # "none"
           /\ Len(ret.names) = 1 /\ ret'.names = ret.names)
          => /\ ret'.error = ret.error
             /\ UnknownEvent(ret'.error) <=> UnknownEvent(ret.error)]_vars

\* A hub with a collection of names has accepted a name in a once call, and
\* the next call, an addEventListener with the same name, has returned.
C29_Witness ==
    /\ HasAllowList
    /\ nOps = 2
    /\ 1 \in OnceIds
    /\ ret.op = "addEventListener" /\ ret.result = "this"
    /\ ret.ev = calls[1].s

====
